---- MODULE Spec2Model ----
(***************************************************************************)
(* Bill Splitter for Groups (src/demo.py).                                 *)
(*                                                                         *)
(* The interactive session of main() / run_single_split() as a state       *)
(* machine: one action per input() prompt, and one action per iteration    *)
(* of the residual loops of split_evenly and split_by_percentage.          *)
(*                                                                         *)
(* Units.  Money is a Decimal in the source.  Here every amount is an      *)
(* integer number of half-cents (0.005 of the currency unit), so that a    *)
(* total entered with three fraction digits (0.005) is representable:      *)
(* 0.01 is 2 half-cents.  A percentage is an integer number of hundredths  *)
(* of a percent: 100 % is 10000, the tolerance 0.01 is 1.  Quotients and   *)
(* products (total / n, p / 100 * total) are kept as exact fractions       *)
(* num / den until round_money quantizes them; on the values of the       *)
(* input sets below the 28-digit quotient of the source rounds to the      *)
(* same cent as the exact fraction.                                        *)
(***************************************************************************)
EXTENDS Integers, Sequences, FiniteSets, TLC

VARIABLES
    pc,           \* the prompt or loop the session is at
    total,        \* run_single_split: total (half-cents)
    n,            \* run_single_split: n
    names,        \* run_single_split: names
    method,       \* run_single_split: method ("" before it is chosen)
    percentages,  \* run_single_split: percentages collected so far
    shares,       \* split_*: rounded_shares / shares (half-cents)
    residual,     \* split_*: residual (half-cents)
    i,            \* split_*: round-robin index (0-based)
    iters,        \* history: iterations of the residual loop in this call
    result,       \* run_single_split: result, the list of (name, amount)
    msg,          \* the diagnostic printed by the last step, if any
    reported,     \* the percentage sum printed by the sum diagnostic
    histLen       \* main: len(session_history)

vars == <<pc, total, n, names, method, percentages, shares, residual, i, iters,
          result, msg, reported, histLen>>

(***************************************************************************)
(* Bounds of the model.                                                    *)
(***************************************************************************)
MaxN == 4        \* largest participant count entered
MaxIter == 8     \* cap on the iterations of one residual loop
MaxSplits == 1   \* cap on len(session_history) before the session must end

(***************************************************************************)
(* Program constants, in model units.                                      *)
(***************************************************************************)
Cent == 2            \* Decimal('0.01') in half-cents
Hundred == 10000     \* Decimal('100') in hundredths of a percent
Tolerance == 1       \* Decimal('0.01') percent in hundredths of a percent
MinValue == 1        \* get_positive_int(..., min_value=1)

(***************************************************************************)
(* Inputs.  A token is what the user typed: whether it parses, and the     *)
(* value it parses to.                                                     *)
(***************************************************************************)
Tok(v) == [ok |-> TRUE, val |-> v]
BadTok == [ok |-> FALSE, val |-> 0]

\* "abc", -1.00, 0, 0.005, 0.01, 0.02, 10.005, 100.00, 400.00
TotalInputs == {BadTok} \cup {Tok(v) : v \in {-200, 0, 1, 2, 4, 2001, 20000, 80000}}
\* "-1" and "abc" are not isdigit(); 0 .. MaxN are
CountInputs == {BadTok} \cup {Tok(v) : v \in 0..MaxN}
\* "abc", -25, 0, 25, 33.33, 33.34, 50, 50.01, 100
PctInputs == {BadTok} \cup
             {Tok(v) : v \in {-2500, 0, 2500, 3333, 3334, 5000, 5001, 10000}}
Methods == {"e", "p", "x"}

(***************************************************************************)
(* Helpers.                                                                *)
(***************************************************************************)
RECURSIVE Sum(_)
Sum(s) == IF s = <<>> THEN 0 ELSE Head(s) + Sum(Tail(s))

Abs(x) == IF x < 0 THEN -x ELSE x

Min(a, b) == IF a < b THEN a ELSE b

\* The integer nearest to num / den (den > 0), ties away from zero.
RoundHalfUp(num, den) ==
    LET a == Abs(num)
        q == a \div den
        up == IF 2 * (a % den) >= den THEN q + 1 ELSE q
    IN  IF num >= 0 THEN up ELSE -up

\* round_money: quantize(Decimal('0.01'), ROUND_HALF_UP) of num / den half-cents.
round_money(num, den) == Cent * RoundHalfUp(num, den * Cent)

\* to_decimal: the value of a token that parses.
to_decimal(tok) == tok.val

\* list(zip(a, b)): pairs up to the shorter of the two.
Zip(a, b) == [k \in 1..Min(Len(a), Len(b)) |-> <<a[k], b[k]>>]

NoResult == [none |-> TRUE, pairs |-> <<>>]
SomeResult(p) == [none |-> FALSE, pairs |-> p]

\* ask_names: default names "Person k" are k; a name typed by the user is 0
\* (names need not be unique).
DefaultNames(m) == [k \in 1..m |-> k]
TypedNames(m) == [k \in 1..m |-> 0]

\* get_positive_decimal: d < 0 is refused.
NegativeAmount(d) == d < 0

\* A percentage prompt that refuses nothing.
NegativePercentageNever(p) == FALSE

\* The percentage prompt of run_single_split: p < 0 is refused.
NegativePercentage(p) == p < 0

\* A count prompt that lets 0 through.
CountAcceptedAny(v) == v >= 0

\* get_positive_int: n < min_value is refused.
CountAccepted(v) == ~(v < MinValue)

\* A band with strict ends.
InBandStrict(s) == Hundred - Tolerance < s /\ s < Hundred + Tolerance

\* run_single_split: 100 - 0.01 <= total_percent <= 100 + 0.01.
InBand(s) == Hundred - Tolerance <= s /\ s <= Hundred + Tolerance

\* One share too few (range(n - 1)).
EvenSharesShort(t, m) == [k \in 1..(m - 1) |-> round_money(t, m)]

\* split_evenly: [round_money(total / n) for _ in range(n)].
EvenShares(t, m) == [k \in 1..m |-> round_money(t, m)]

\* split_by_percentage: round_money((p / 100) * total) for p in percentages.
PctShares(t, ps) == [k \in 1..Len(ps) |-> round_money(ps[k] * t, Hundred)]

\* residual = total - sum(shares).
Residual(t, s) == t - Sum(s)

\* The index that is never advanced.
SameIndex(j, m) == j

\* i = (i + 1) % n.
NextIndex(j, m) == (j + 1) % m

\* shares[i] += cent  or  shares[i] -= cent  (Python index i is TLA+ i + 1).
Nudge(s, j, r) == [s EXCEPT ![j + 1] = IF r > 0 THEN @ + Cent ELSE @ - Cent]

\* residual -= cent  or  residual += cent.
NudgeResidual(r) == IF r > 0 THEN r - Cent ELSE r + Cent

(***************************************************************************)
(* The session.                                                            *)
(***************************************************************************)
Init ==
    /\ pc = "total"
    /\ total = 0
    /\ n = 0
    /\ names = <<>>
    /\ method = ""
    /\ percentages = <<>>
    /\ shares = <<>>
    /\ residual = 0
    /\ i = 0
    /\ iters = 0
    /\ result = NoResult
    /\ msg = "none"
    /\ reported = 0
    /\ histLen = 0

\* get_positive_decimal("Enter total bill amount: "), one pass of its loop.
GetTotal(tok) ==
    /\ pc = "total"
    /\ IF ~tok.ok
         THEN /\ msg' = "invalid_number"
              /\ UNCHANGED <<pc, total>>
         ELSE IF NegativeAmount(to_decimal(tok))
         THEN /\ msg' = "negative_amount"
              /\ UNCHANGED <<pc, total>>
         ELSE /\ total' = to_decimal(tok)
              /\ pc' = "count"
              /\ msg' = "none"
    /\ UNCHANGED <<n, names, method, percentages, shares, residual, i, iters,
                   result, reported, histLen>>

\* get_positive_int("Enter number of people ...", min_value=1), one pass.
GetCount(tok) ==
    /\ pc = "count"
    /\ IF ~tok.ok
         THEN /\ msg' = "not_positive_int"
              /\ UNCHANGED <<pc, n>>
         ELSE IF ~CountAccepted(tok.val)
         THEN /\ msg' = "below_min"
              /\ UNCHANGED <<pc, n>>
         ELSE /\ n' = tok.val
              /\ pc' = "names"
              /\ msg' = "none"
    /\ UNCHANGED <<total, names, method, percentages, shares, residual, i, iters,
                   result, reported, histLen>>

\* ask_names(n).
AskNames(typed) ==
    /\ pc = "names"
    /\ names' = IF typed THEN TypedNames(n) ELSE DefaultNames(n)
    /\ pc' = "method"
    /\ msg' = "none"
    /\ UNCHANGED <<total, n, method, percentages, shares, residual, i, iters,
                   result, reported, histLen>>

\* split_evenly up to its loop: n = 0 raises in total / Decimal(n).
SplitEvenlyEnter ==
    IF n = 0
    THEN /\ pc' = "crashed"
         /\ msg' = "division_by_zero"
         /\ UNCHANGED <<shares, residual, i, iters>>
    ELSE /\ shares' = EvenShares(total, n)
         /\ residual' = Residual(total, EvenShares(total, n))
         /\ i' = 0
         /\ iters' = 0
         /\ pc' = "even_loop"
         /\ msg' = "none"

\* The sum check of run_single_split, and split_by_percentage up to its loop.
ValidateAndEnter(ps) ==
    IF ~InBand(Sum(ps))
    THEN /\ msg' = "percent_sum"
         /\ reported' = Sum(ps)
         /\ pc' = "cont"
         /\ UNCHANGED <<shares, residual, i, iters>>
    ELSE /\ shares' = PctShares(total, ps)
         /\ residual' = Residual(total, PctShares(total, ps))
         /\ i' = 0
         /\ iters' = 0
         /\ pc' = "pct_loop"
         /\ msg' = "none"
         /\ UNCHANGED reported

\* "Split method - Even (E) or By Percentage (P)?", one pass of its loop.
ChooseMethod(m) ==
    /\ pc = "method"
    /\ IF m = "e"
         THEN /\ SplitEvenlyEnter
              /\ UNCHANGED <<percentages, reported>>
         ELSE IF m = "p"
         THEN IF n = 0
              THEN /\ percentages' = <<>>
                   /\ ValidateAndEnter(<<>>)
              ELSE /\ percentages' = <<>>
                   /\ pc' = "pct"
                   /\ UNCHANGED <<shares, residual, i, iters, reported>>
                   /\ msg' = "none"
         ELSE /\ msg' = "bad_method"
              /\ UNCHANGED <<pc, percentages, shares, residual, i, iters,
                             reported>>
    /\ method' = IF m \in {"e", "p"} THEN m ELSE method
    /\ UNCHANGED <<total, n, names, result, histLen>>

\* "Percentage for <name>: ", one pass; after the last one the sum is checked.
EnterPercentage(tok) ==
    /\ pc = "pct"
    /\ IF ~tok.ok
         THEN /\ msg' = "invalid_percentage"
              /\ UNCHANGED <<pc, percentages, shares, residual, i, iters,
                             reported>>
         ELSE IF NegativePercentage(to_decimal(tok))
         THEN /\ msg' = "negative_percentage"
              /\ UNCHANGED <<pc, percentages, shares, residual, i, iters,
                             reported>>
         ELSE /\ percentages' = Append(percentages, to_decimal(tok))
              /\ IF Len(percentages) + 1 < n
                   THEN /\ msg' = "none"
                        /\ UNCHANGED <<pc, shares, residual, i, iters, reported>>
                   ELSE ValidateAndEnter(Append(percentages, to_decimal(tok)))
    /\ UNCHANGED <<total, n, names, method, result, histLen>>

\* One iteration of the while loop of split_evenly.
SplitEvenlyIter ==
    /\ pc = "even_loop"
    /\ residual # 0
    /\ iters < MaxIter
    /\ shares' = Nudge(shares, i, residual)
    /\ residual' = NudgeResidual(residual)
    /\ i' = NextIndex(i, n)
    /\ iters' = iters + 1
    /\ UNCHANGED <<pc, total, n, names, method, percentages, result, msg,
                   reported, histLen>>

\* The loop of split_evenly ends: return list(zip(names, rounded_shares)).
SplitEvenlyReturn ==
    /\ pc = "even_loop"
    /\ residual = 0
    /\ result' = SomeResult(Zip(names, shares))
    /\ pc' = "export"
    /\ UNCHANGED <<total, n, names, method, percentages, shares, residual, i, iters,
                   msg, reported, histLen>>

\* One iteration of the while loop of split_by_percentage.
SplitByPercentageIter ==
    /\ pc = "pct_loop"
    /\ residual # 0
    /\ iters < MaxIter
    /\ IF Len(shares) = 0
         THEN /\ pc' = "crashed"
              /\ msg' = "index_error"
              /\ UNCHANGED <<shares, residual, i, iters>>
         ELSE /\ shares' = Nudge(shares, i, residual)
              /\ residual' = NudgeResidual(residual)
              /\ i' = NextIndex(i, Len(shares))
              /\ iters' = iters + 1
              /\ UNCHANGED <<pc, msg>>
    /\ UNCHANGED <<total, n, names, method, percentages, result, reported, histLen>>

\* The loop of split_by_percentage ends: return list(zip(names, shares)).
SplitByPercentageReturn ==
    /\ pc = "pct_loop"
    /\ residual = 0
    /\ result' = SomeResult(Zip(names, shares))
    /\ pc' = "export"
    /\ UNCHANGED <<total, n, names, method, percentages, shares, residual, i, iters,
                   msg, reported, histLen>>

\* "Would you like to export results to a .txt file?", then main appends the
\* returned text to session_history.
Export(save) ==
    /\ pc = "export"
    /\ msg' = IF save THEN "saved" ELSE "none"
    /\ histLen' = histLen + 1
    /\ pc' = "cont"
    /\ UNCHANGED <<total, n, names, method, percentages, shares, residual, i, iters,
                   result, reported>>

\* "Do you want to perform another split? (Y/n)": a new run_single_split.
Continue ==
    /\ pc = "cont"
    /\ histLen < MaxSplits
    /\ pc' = "total"
    /\ total' = 0
    /\ n' = 0
    /\ names' = <<>>
    /\ method' = ""
    /\ percentages' = <<>>
    /\ shares' = <<>>
    /\ residual' = 0
    /\ i' = 0
    /\ iters' = 0
    /\ result' = NoResult
    /\ msg' = "none"
    /\ reported' = 0
    /\ UNCHANGED histLen

\* "Do you want to perform another split? (Y/n)": n, the session ends.
Quit ==
    /\ pc = "cont"
    /\ pc' = "exit"
    /\ UNCHANGED <<total, n, names, method, percentages, shares, residual, i, iters,
                   result, msg, reported, histLen>>

Next ==
    \/ \E tok \in TotalInputs : GetTotal(tok)
    \/ \E tok \in CountInputs : GetCount(tok)
    \/ \E typed \in BOOLEAN : AskNames(typed)
    \/ \E m \in Methods : ChooseMethod(m)
    \/ \E tok \in PctInputs : EnterPercentage(tok)
    \/ SplitEvenlyIter
    \/ SplitEvenlyReturn
    \/ SplitByPercentageIter
    \/ SplitByPercentageReturn
    \/ \E save \in BOOLEAN : Export(save)
    \/ Continue
    \/ Quit

Spec == Init /\ [][Next]_vars

(***************************************************************************)
(* Vocabulary of the properties.                                           *)
(***************************************************************************)
InLoop == pc \in {"even_loop", "pct_loop"}

\* split_evenly or split_by_percentage has returned its list.
Returned == ~result.none

\* The amounts of the returned list.
Amounts == [k \in 1..Len(result.pairs) |-> result.pairs[k][2]]

\* The independently rounded shares the call started from.
Rounded == IF method = "e" THEN EvenShares(total, n)
           ELSE PctShares(total, percentages)

\* The net adjustment reconciliation has applied to participant k so far.
Delta(k) == shares[k] - Rounded[k]

\* The target of the spec's Reconciler: round_half_up(total, 2).
Target == Cent * RoundHalfUp(total, Cent)

TwoFractionDigits == total % Cent = 0

ExactHundred == method = "p" /\ Sum(percentages) = Hundred

WithinBand(x) == Hundred - Tolerance <= x /\ x <= Hundred + Tolerance

(***************************************************************************)
(* C1.  Exact sum: the residual is measured against the target             *)
(* round_half_up(total, 2), so inside the loop residual = target -         *)
(* sum(shares), and the shares a call returns sum to exactly that target.  *)
(* Fails: the code measures the residual against the unrounded total.      *)
(***************************************************************************)
C1_ExactSum ==
    /\ InLoop => residual = Target - Sum(shares)
    /\ Returned => Sum(Amounts) = Target

(***************************************************************************)
(* C2.  Termination: every iteration of the residual loop lowers           *)
(* |residual| by exactly one minor unit (so the loop reaches zero).        *)
(* Fails: with a total of three fraction digits |residual| stays 0.005.    *)
(***************************************************************************)
C2_ResidualDecreases ==
    [][(InLoop /\ iters' = iters + 1) => Abs(residual') = Abs(residual) - Cent]_vars

(***************************************************************************)
(* C3.  Granularity: the residual before the loop and at every iteration   *)
(* is an integer multiple of the minor unit 0.01.                          *)
(* Fails: total 0.005, n = 1 gives residual -0.005.                        *)
(***************************************************************************)
C3_ResidualGranular == InLoop => residual % Cent = 0

(***************************************************************************)
(* C4.  Percentage-sum validation: once all n percentages are entered, the *)
(* split is performed if and only if their sum lies in [99.99, 100.01];    *)
(* outside the band the sum diagnostic reports the actual sum,             *)
(* split_by_percentage is not entered (no shares, no iterations) and no    *)
(* result exists.                                                          *)
(***************************************************************************)
C4_PercentageBand ==
    (method = "p" /\ pc \notin {"method", "pct"}) =>
        IF WithinBand(Sum(percentages))
        THEN /\ pc \in {"pct_loop", "export", "cont", "exit"}
             /\ Len(shares) = n
             /\ pc # "pct_loop" => Returned
        ELSE /\ pc \in {"cont", "exit"}
             /\ msg = "percent_sum"
             /\ reported = Sum(percentages)
             /\ shares = <<>>
             /\ iters = 0
             /\ ~Returned

\* A sum just outside the band (100.02) has been refused.
C4_Witness ==
    /\ pc = "cont"
    /\ msg = "percent_sum"
    /\ Sum(percentages) = Hundred + Tolerance + 1
    /\ ~Returned

C7_ShareCount ==
    /\ InLoop => Len(shares) = n
    /\ Returned =>
         /\ Len(result.pairs) = n
         /\ \A k \in 1..n : result.pairs[k] = <<names[k], shares[k]>>

\* A list of three was returned after reconciliation adjusted it.
C7_Witness == Returned /\ n = 3 /\ iters > 0 /\ names = DefaultNames(3)

(***************************************************************************)
(* C8.  Round-robin: the loop is at index iters mod n, all adjustments of  *)
(* one call have the same sign, and at loop exit an earlier participant    *)
(* has received at least as many adjustments as a later one, and at most   *)
(* one more.                                                               *)
(* Fails: with a total of three fraction digits the sign alternates.       *)
(***************************************************************************)
C8_RoundRobin ==
    /\ InLoop => i = iters % n
    /\ (InLoop \/ Returned) =>
         \/ \A k \in 1..n : Delta(k) >= 0
         \/ \A k \in 1..n : Delta(k) <= 0
    /\ Returned =>
         \A a, b \in 1..n :
            a < b => /\ Abs(Delta(a)) >= Abs(Delta(b))
                     /\ Abs(Delta(a)) <= Abs(Delta(b)) + Cent

C10_EvenFair ==
    (Returned /\ method = "e" /\ TwoFractionDigits) =>
        /\ \E m \in 1..n :
              /\ \A k \in 1..m : Amounts[k] = Amounts[1]
              /\ \A k \in (m + 1)..n : Amounts[k] = Amounts[n]
        /\ Amounts[1] = Amounts[n] \/ Abs(Amounts[1] - Amounts[n]) = Cent
        /\ \A k \in 1..n : Amounts[k] >= 0

\* 100.00 among three: the first share differs from the last.
C10_Witness ==
    /\ Returned
    /\ method = "e"
    /\ TwoFractionDigits
    /\ n = 3
    /\ Amounts[1] = Amounts[3] + Cent

====
